---------------------------- MODULE Spec2Model ----------------------------
(***************************************************************************)
(* Truedat analyzer (src/src/analyze.py): the feature-to-mood scorer       *)
(* (normalize, clamp, compute_valence, compute_arousal), the analyze       *)
(* routine with its fallback for the high-level model stage, and the       *)
(* command's main block.                                                   *)
(*                                                                         *)
(* Numbers.  The program computes with floats.  The model computes with    *)
(* exact values of the field Q(eps), eps = 1e-9 being the constant of      *)
(* normalize: a number is a quotient n/d of two polynomials in eps with    *)
(* integer coefficients (a sequence <<c0, c1, ...>> stands for             *)
(* c0 + c1*eps + c2*eps^2 + ...).  As long as every coefficient is below   *)
(* 1/eps in magnitude the sign of such a polynomial at eps = 1e-9 is the   *)
(* sign of its first non-zero coefficient, so order and equality are       *)
(* decided exactly; PSign is undefined (TLC stops) beyond that.  Float     *)
(* rounding error and overflow to infinity are not modelled; NaN is,       *)
(* because numpy's mean of an empty slice produces it.                     *)
(***************************************************************************)
EXTENDS Integers, Sequences, FiniteSets, TLC

VARIABLES
    pc,                 \* position of the command: main block and analyze
    argv,               \* sys.argv
    bpm, loudness, spectral_centroid, spectral_flux, mfcc, key, scale,
    high,               \* what the high-level stage has produced so far
    energy_model, valence_model,
    bpm_n, loud_n, cent_n, flux_n,
    arousal, valence,
    result,             \* analyze's return value
    raised,             \* the exception propagating out of analyze, or "none"
    stdout, stderr, exit_status,
    call                \* a direct call of one of the scorer's functions

core == <<bpm, loudness, spectral_centroid, spectral_flux, mfcc, key, scale>>
models == <<high, energy_model, valence_model>>
normed == <<bpm_n, loud_n, cent_n, flux_n>>
mood == <<arousal, valence>>
output == <<result, raised, stdout, stderr, exit_status>>
vars == <<pc, argv, core, models, normed, mood, output, call>>

---------------------------------------------------------------------------
(* Bounds of the model *)

\* timbre coefficient sequences have 0..MaxMfccLen elements
MaxMfccLen == 6
\* how far outside their reference range descriptors are drawn, in range widths
MaxOver == 1

---------------------------------------------------------------------------
(* Polynomials in eps with integer coefficients *)

\* 1e-9 = 1 / EpsInv
EpsInv == 1000000000

Abs(i) == IF i < 0 THEN -i ELSE i

Max2(i, j) == IF i < j THEN j ELSE i

RECURSIVE GCD(_, _)
GCD(i, j) == IF j = 0 THEN Abs(i) ELSE GCD(j, i % Abs(j))

RECURSIVE SeqSum(_)
SeqSum(s) == IF s = <<>> THEN 0 ELSE Head(s) + SeqSum(Tail(s))

RECURSIVE SeqGCD(_)
SeqGCD(s) == IF s = <<>> THEN 0 ELSE GCD(Head(s), SeqGCD(Tail(s)))

PCoef(p, i) == IF i <= Len(p) THEN p[i] ELSE 0

RECURSIVE PTrim(_)
PTrim(p) ==
    IF Len(p) > 1 /\ p[Len(p)] = 0 THEN PTrim(SubSeq(p, 1, Len(p) - 1)) ELSE p

PAdd(p, q) == PTrim([i \in 1..Max2(Len(p), Len(q)) |-> PCoef(p, i) + PCoef(q, i)])

PScale(k, p) == PTrim([i \in 1..Len(p) |-> k * p[i]])

PSub(p, q) == PAdd(p, PScale(-1, q))

PMul(p, q) ==
    PTrim([k \in 1..(Len(p) + Len(q) - 1) |->
        SeqSum([i \in 1..Len(p) |->
            IF k - i + 1 >= 1 /\ k - i + 1 <= Len(q) THEN p[i] * q[k - i + 1] ELSE 0])])

PDivInt(p, g) == [i \in 1..Len(p) |-> p[i] \div g]

PIsZero(p) == \A i \in 1..Len(p) : p[i] = 0

\* p without its integer content
PPrim(p) == IF PIsZero(p) THEN <<0>> ELSE PDivInt(PTrim(p), SeqGCD(p))

\* p * eps^k
PShift(p, k) == [i \in 1..(Len(p) + k) |-> IF i <= k THEN 0 ELSE p[i - k]]

\* the pseudo-remainder of a by b # 0, without its content
RECURSIVE PRem(_, _)
PRem(a, b) ==
    IF PIsZero(a) \/ Len(a) < Len(b) THEN a
    ELSE PRem(PPrim(PSub(PScale(b[Len(b)], a),
                         PScale(a[Len(a)], PShift(b, Len(a) - Len(b))))), b)

\* a greatest common divisor of a and b in Z[eps], without content
RECURSIVE PGcd(_, _)
PGcd(a, b) == IF PIsZero(b) THEN PPrim(a) ELSE PGcd(b, PRem(a, b))

\* a / b for b dividing a
RECURSIVE PQuo(_, _)
PQuo(a, b) ==
    IF PIsZero(a) THEN <<0>>
    ELSE CASE Len(a) >= Len(b) ->
        LET t == PShift(<<a[Len(a)] \div b[Len(b)]>>, Len(a) - Len(b))
        IN  PAdd(t, PQuo(PSub(a, PMul(t, b)), b))

\* exact while the coefficients stay below 1/eps
PSmall(p) == \A i \in 1..Len(p) : Abs(p[i]) < EpsInv - 1

RECURSIVE FirstNonZero(_)
FirstNonZero(p) ==
    IF p = <<>> THEN 0 ELSE IF Head(p) # 0 THEN Head(p) ELSE FirstNonZero(Tail(p))

\* sign of p at eps = 1e-9: -1, 0 or 1
PSign(p) ==
    CASE PSmall(p) ->
        LET c == FirstNonZero(p) IN IF c < 0 THEN -1 ELSE IF c > 0 THEN 1 ELSE 0

---------------------------------------------------------------------------
(* Numbers: quotients of polynomials, NaN, and the unbound local *)

NaN == [k |-> "nan", n |-> <<0>>, d |-> <<1>>]

Unbound == [k |-> "unbound", n |-> <<0>>, d |-> <<1>>]

\* n/d with d # 0, brought to a positive denominator, with the common integer
\* factor and the common power of eps cancelled
RECURSIVE Quot(_, _)
Quot(n, d) ==
    IF Len(n) > 1 /\ Len(d) > 1 /\ n[1] = 0 /\ d[1] = 0 THEN Quot(Tail(n), Tail(d))
    ELSE LET s == PSign(d)
             g == GCD(SeqGCD(n), SeqGCD(d))
         IN  [k |-> "num", n |-> PDivInt(PScale(s, n), g), d |-> PDivInt(PScale(s, d), g)]

Rat(a, b) == Quot(<<a>>, <<b>>)

Int2Num(a) == Rat(a, 1)

\* the literal 1e-9
Eps == Quot(<<0, 1>>, <<1>>)

IsNum(x) == x.k = "num"

IsZero(x) == IsNum(x) /\ PSign(x.n) = 0

Add(x, y) ==
    IF ~IsNum(x) \/ ~IsNum(y) THEN NaN
    ELSE IF x.d = y.d THEN Quot(PAdd(x.n, y.n), x.d)
    ELSE Quot(PAdd(PMul(x.n, y.d), PMul(y.n, x.d)), PMul(x.d, y.d))

Neg(x) == IF ~IsNum(x) THEN NaN ELSE Quot(PScale(-1, x.n), x.d)

Sub(x, y) == Add(x, Neg(y))

Mul(x, y) ==
    IF ~IsNum(x) \/ ~IsNum(y) THEN NaN
    ELSE Quot(PMul(x.n, y.n), PMul(x.d, y.d))

\* x / y for y # 0
Div(x, y) ==
    IF ~IsNum(x) \/ ~IsNum(y) THEN NaN
    ELSE Quot(PMul(x.n, y.d), PMul(x.d, y.n))

\* the cofactors <<a, b>> of the denominators: x.d = g*a and y.d = g*b for
\* their greatest common divisor g
Cofactors(x, y) ==
    LET g == PGcd(x.d, y.d)
        a == PQuo(x.d, g)
        b == PQuo(y.d, g)
        gi == GCD(SeqGCD(a), SeqGCD(b))
    IN  <<PDivInt(a, gi), PDivInt(b, gi)>>

\* the sign of x - y for numbers x and y (their denominators are positive);
\* the common factor of the denominators is cancelled before cross-multiplying
Cmp(x, y) ==
    IF x.d = y.d THEN PSign(PSub(x.n, y.n))
    ELSE IF Len(x.d) = 1 \/ Len(y.d) = 1
    THEN PSign(PSub(PMul(x.n, y.d), PMul(y.n, x.d)))
    ELSE LET c == Cofactors(x, y)
         IN  PSign(PSub(PMul(x.n, c[2]), PMul(y.n, c[1]))) * PSign(c[2])

\* x < y; every comparison with NaN is false
Lt(x, y) == IsNum(x) /\ IsNum(y) /\ Cmp(x, y) < 0

Eq(x, y) == IsNum(x) /\ IsNum(y) /\ Cmp(x, y) = 0

Le(x, y) == Lt(x, y) \/ Eq(x, y)

RECURSIVE NumSum(_)
NumSum(s) == IF s = <<>> THEN Int2Num(0) ELSE Add(Head(s), NumSum(Tail(s)))

---------------------------------------------------------------------------
(* Python and numpy primitives used by the scorer *)

\* an exception raised in place of a value
Raise(name) == [k |-> name, n |-> <<0>>, d |-> <<1>>]

Raises(x) == x.k \notin {"num", "nan", "unbound"}

\* float division: ZeroDivisionError on a zero divisor
TrueDiv(x, y) == IF IsZero(y) THEN Raise("ZeroDivisionError") ELSE Div(x, y)

\* the builtin min(a, b): b when b < a, else a
PyMin(a, b) == IF Lt(b, a) THEN b ELSE a

\* the builtin max(a, b): b when b > a, else a
PyMax(a, b) == IF Lt(a, b) THEN b ELSE a

\* s[:5]
FirstFive(s) == SubSeq(s, 1, IF Len(s) < 5 THEN Len(s) ELSE 5)

\* np.mean: NaN (with a warning, no exception) on an empty sequence
np_mean(s) == IF Len(s) = 0 THEN NaN ELSE Div(NumSum(s), Int2Num(Len(s)))

\* round(x, ndigits): the multiple of 10^-ndigits nearest to x, ties to even.
\* unit = 10^ndigits.  The quotient of the leading coefficients is within one
\* of the result; the remainder polynomial decides.
py_round(x, unit) ==
    IF ~IsNum(x) THEN x
    ELSE CASE x.d[1] > 0 ->
        LET k0 == (unit * x.n[1]) \div x.d[1]
            rem == PSub(PScale(unit, x.n), PScale(k0, x.d))
            s == PSign(PSub(PScale(2, rem), x.d))
        IN  Rat(IF s < 0 THEN k0
                ELSE IF s > 0 THEN k0 + 1
                ELSE IF k0 % 2 = 0 THEN k0 ELSE k0 + 1, unit)

---------------------------------------------------------------------------
(* The scorer *)

\* faulty variant: the divisor without the 1e-9 term
normalize_no_eps(x, min_val, max_val) ==
    TrueDiv(Sub(x, min_val), Sub(max_val, min_val))

normalize(x, min_val, max_val) ==
    TrueDiv(Sub(x, min_val), Add(Sub(max_val, min_val), Eps))

\* faulty variant: the upper limit is not applied
clamp_no_upper(x, min_val, max_val) == PyMax(min_val, x)

clamp(x, min_val, max_val) == PyMax(min_val, PyMin(max_val, x))

\* faulty variant: the flag is set for the other mode
mode_flag_minor(mode) == IF mode = "minor" THEN 1 ELSE 0

mode_flag(mode) == IF mode = "major" THEN 1 ELSE 0

\* faulty variant: the mean of all coefficients
mfcc_brightness_all(mfccs) == np_mean(mfccs)

mfcc_brightness(mfccs) == np_mean(FirstFive(mfccs))

\* the argument of clamp in compute_valence
valence_raw(mode, centroid, vmodel, mfccs) ==
    Add(Add(Add(Mul(Rat(35, 100), Int2Num(mode_flag(mode))),
                Mul(Rat(25, 100), centroid)),
            Mul(Rat(20, 100), vmodel)),
        Mul(Rat(20, 100), mfcc_brightness(mfccs)))

compute_valence(mode, centroid, vmodel, mfccs) ==
    clamp(valence_raw(mode, centroid, vmodel, mfccs), Int2Num(0), Int2Num(1))

\* the argument of clamp in compute_arousal
arousal_raw(b, l, f, emodel) ==
    Add(Add(Add(Mul(Rat(4, 10), b), Mul(Rat(3, 10), l)), Mul(Rat(2, 10), f)),
        Mul(Rat(1, 10), emodel))

compute_arousal(b, l, f, emodel) ==
    clamp(arousal_raw(b, l, f, emodel), Int2Num(0), Int2Num(1))

---------------------------------------------------------------------------
(* Inputs of the model *)

\* values of a normalized descriptor, in and far outside [0,1]
NormVals ==
    {Rat(-3 * MaxOver, 2), Int2Num(0), Rat(1, 2), Int2Num(1), Rat(3 * (MaxOver + 1), 2)}

\* model values passed to the scorers, in and outside [0,1]
ModelVals == {Int2Num(-4 * MaxOver), Int2Num(0), Rat(1, 2), Int2Num(1)}

\* timbre coefficient sequences: over {0, 1} and over {-2, 3}
MfccVals ==
    UNION {[1..len -> {Int2Num(0), Int2Num(1)}] \cup [1..len -> {Int2Num(-2), Int2Num(3)}] :
           len \in 0..MaxMfccLen}

\* what the extractors of analyze return
BpmVals == {Int2Num(60), Int2Num(61), Int2Num(200), Int2Num(200 * (1 + MaxOver))}

LoudnessVals == {Int2Num(-60), Int2Num(-30), Int2Num(0)}

CentroidVals == {Int2Num(500), Int2Num(5000)}

FluxVals == {Int2Num(0), Rat(1, 3), Int2Num(1)}

MfccOuts == {[i \in 1..5 |-> Int2Num(0)], [i \in 1..MaxMfccLen |-> Int2Num(1)]}

ScaleVals == {"major", "minor"}

\* a key of the high-level pool is present with a value or absent
PoolVals == {Rat(1, 2), Int2Num(1), Raise("KeyError")}

ModeVals == {"major", "minor", "dorian"}

\* arguments of normalize: points around the range ends, half an eps apart
XVals == {Add(Int2Num(a), Mul(Rat(b, 2), Eps)) : a \in -1..3, b \in -2..3}

RangeVals == {Int2Num(0), Int2Num(2), Sub(Int2Num(2), Eps)}

---------------------------------------------------------------------------
(* Direct calls of the scorer's functions *)

NoCall == [fn |-> "none", args |-> <<>>, ret |-> Unbound, raised |-> "none"]

\* the outcome of a call that evaluated to v
Invoke(fn, args, v) ==
    [fn |-> fn, args |-> args,
     ret |-> IF Raises(v) THEN Unbound ELSE v,
     raised |-> IF Raises(v) THEN v.k ELSE "none"]

CallNormalize ==
    /\ call.fn = "none"
    /\ \E x \in XVals, min_val \in RangeVals, max_val \in RangeVals :
        call' = Invoke("normalize",
                       [x |-> x, min_val |-> min_val, max_val |-> max_val],
                       normalize(x, min_val, max_val))
    /\ UNCHANGED <<pc, argv, core, models, normed, mood, output>>

CallClamp ==
    /\ call.fn = "none"
    /\ \E x \in NormVals \cup {NaN} :
        call' = Invoke("clamp", [x |-> x], clamp(x, Int2Num(0), Int2Num(1)))
    /\ UNCHANGED <<pc, argv, core, models, normed, mood, output>>

CallComputeValence ==
    /\ call.fn = "none"
    /\ \E mode \in ModeVals, centroid \in NormVals, vmodel \in ModelVals,
          mfccs \in MfccVals :
        call' = Invoke("compute_valence",
                       [mode |-> mode, spectral_centroid |-> centroid,
                        valence_model |-> vmodel, mfccs |-> mfccs],
                       compute_valence(mode, centroid, vmodel, mfccs))
    /\ UNCHANGED <<pc, argv, core, models, normed, mood, output>>

CallComputeArousal ==
    /\ call.fn = "none"
    /\ \E b \in NormVals, l \in NormVals, f \in NormVals, emodel \in ModelVals :
        call' = Invoke("compute_arousal",
                       [bpm |-> b, loudness |-> l, spectral_flux |-> f,
                        energy_model |-> emodel],
                       compute_arousal(b, l, f, emodel))
    /\ UNCHANGED <<pc, argv, core, models, normed, mood, output>>

CallReturn ==
    /\ call.fn # "none"
    /\ call' = NoCall
    /\ UNCHANGED <<pc, argv, core, models, normed, mood, output>>

---------------------------------------------------------------------------
(* The command: main block and analyze *)

NoResult == [error |-> "none"]

NoPool == [error |-> "none", energy |-> Unbound, valence |-> Unbound]

Init ==
    /\ pc = "main"
    /\ argv \in {<<"analyze.py">>, <<"analyze.py", "track.mp3">>}
    /\ bpm = Unbound /\ loudness = Unbound
    /\ spectral_centroid = Unbound /\ spectral_flux = Unbound
    /\ mfcc = <<>> /\ key = "" /\ scale = ""
    /\ high = NoPool
    /\ energy_model = Unbound /\ valence_model = Unbound
    /\ bpm_n = Unbound /\ loud_n = Unbound /\ cent_n = Unbound /\ flux_n = Unbound
    /\ arousal = Unbound /\ valence = Unbound
    /\ result = NoResult
    /\ raised = "none"
    /\ stdout = <<>> /\ stderr = <<>> /\ exit_status = -1
    /\ call = NoCall

\* an exception leaves analyze and reaches the handler of the main block
Propagate(msg) ==
    /\ raised' = msg
    /\ pc' = "handler"
    /\ UNCHANGED <<result, stdout, stderr, exit_status>>

\* analyze goes on at the next statement
Goto(next) ==
    /\ pc' = next
    /\ UNCHANGED output

Usage == "Usage: python analyze.py <audio_file_path>"

\* if len(sys.argv) < 2: usage, exit 1
MainArgs ==
    /\ pc = "main"
    /\ IF Len(argv) < 2
       THEN /\ stderr' = Append(stderr, Usage)
            /\ exit_status' = 1
            /\ pc' = "exit"
            /\ UNCHANGED <<result, raised, stdout>>
       ELSE Goto("load")
    /\ UNCHANGED <<argv, core, models, normed, mood, call>>

\* loader = es.MonoLoader(filename=path); audio = loader()
LoadAudio ==
    /\ pc = "load"
    /\ \/ Goto("rhythm")
       \/ Propagate("MonoLoader")
    /\ UNCHANGED <<argv, core, models, normed, mood, call>>

ExtractRhythm ==
    /\ pc = "rhythm"
    /\ \/ /\ bpm' \in BpmVals
          /\ Goto("loudness")
       \/ /\ Propagate("RhythmExtractor2013")
          /\ UNCHANGED bpm
    /\ UNCHANGED <<argv, loudness, spectral_centroid, spectral_flux, mfcc, key, scale,
                   models, normed, mood, call>>

ExtractLoudness ==
    /\ pc = "loudness"
    /\ \/ /\ loudness' \in LoudnessVals
          /\ Goto("centroid")
       \/ /\ Propagate("Loudness")
          /\ UNCHANGED loudness
    /\ UNCHANGED <<argv, bpm, spectral_centroid, spectral_flux, mfcc, key, scale,
                   models, normed, mood, call>>

ExtractCentroid ==
    /\ pc = "centroid"
    /\ \/ /\ spectral_centroid' \in CentroidVals
          /\ Goto("flux")
       \/ /\ Propagate("Centroid")
          /\ UNCHANGED spectral_centroid
    /\ UNCHANGED <<argv, bpm, loudness, spectral_flux, mfcc, key, scale,
                   models, normed, mood, call>>

ExtractFlux ==
    /\ pc = "flux"
    /\ \/ /\ spectral_flux' \in FluxVals
          /\ Goto("mfcc")
       \/ /\ Propagate("Flux")
          /\ UNCHANGED spectral_flux
    /\ UNCHANGED <<argv, bpm, loudness, spectral_centroid, mfcc, key, scale,
                   models, normed, mood, call>>

ExtractMfcc ==
    /\ pc = "mfcc"
    /\ \/ /\ mfcc' \in MfccOuts
          /\ Goto("key")
       \/ /\ Propagate("MFCC")
          /\ UNCHANGED mfcc
    /\ UNCHANGED <<argv, bpm, loudness, spectral_centroid, spectral_flux, key, scale,
                   models, normed, mood, call>>

\* key, scale, strength = es.KeyExtractor()(audio)
ExtractKey ==
    /\ pc = "key"
    /\ \/ /\ key' = "A"
          /\ scale' \in ScaleVals
          /\ Goto("hl_construct")
       \/ /\ Propagate("KeyExtractor")
          /\ UNCHANGED <<key, scale>>
    /\ UNCHANGED <<argv, bpm, loudness, spectral_centroid, spectral_flux, mfcc,
                   models, normed, mood, call>>

\* try: music_extractor = es.MusicExtractor()
HLConstruct ==
    /\ pc = "hl_construct"
    /\ \/ /\ pc' = "hl_run"
          /\ UNCHANGED high
       \/ /\ high' = [high EXCEPT !.error = "MusicExtractor"]
          /\ pc' = "hl_except"
    /\ UNCHANGED <<argv, core, energy_model, valence_model, normed, mood, output, call>>

\* high = music_extractor(path)
HLRun ==
    /\ pc = "hl_run"
    /\ \/ /\ \E e \in PoolVals, v \in PoolVals :
                high' = [high EXCEPT !.energy = e, !.valence = v]
          /\ pc' = "hl_energy"
       \/ /\ high' = [high EXCEPT !.error = "music_extractor"]
          /\ pc' = "hl_except"
    /\ UNCHANGED <<argv, core, energy_model, valence_model, normed, mood, output, call>>

\* energy_model = high['lowlevel.spectral_energy']
HLReadEnergy ==
    /\ pc = "hl_energy"
    /\ IF Raises(high.energy)
       THEN /\ high' = [high EXCEPT !.error = high.energy.k]
            /\ pc' = "hl_except"
            /\ UNCHANGED energy_model
       ELSE /\ energy_model' = high.energy
            /\ pc' = "hl_valence"
            /\ UNCHANGED high
    /\ UNCHANGED <<argv, core, valence_model, normed, mood, output, call>>

\* valence_model = high['highlevel.valence.all']['mean']
HLReadValence ==
    /\ pc = "hl_valence"
    /\ IF Raises(high.valence)
       THEN /\ high' = [high EXCEPT !.error = high.valence.k]
            /\ pc' = "hl_except"
            /\ UNCHANGED valence_model
       ELSE /\ valence_model' = high.valence
            /\ pc' = "normalize"
            /\ UNCHANGED high
    /\ UNCHANGED <<argv, core, energy_model, normed, mood, output, call>>

\* faulty variant: the handler re-raises
HLExcept_reraise ==
    /\ pc = "hl_except"
    /\ Propagate(high.error)
    /\ UNCHANGED <<argv, core, models, normed, mood, call>>

\* faulty variant: only the value not yet read gets the default
HLExcept_partial ==
    /\ pc = "hl_except"
    /\ energy_model' = IF energy_model = Unbound THEN Rat(1, 2) ELSE energy_model
    /\ valence_model' = IF valence_model = Unbound THEN Rat(1, 2) ELSE valence_model
    /\ pc' = "normalize"
    /\ UNCHANGED <<argv, core, high, normed, mood, output, call>>

\* except: energy_model = 0.5; valence_model = 0.5
HLExcept ==
    /\ pc = "hl_except"
    /\ energy_model' = Rat(1, 2)
    /\ valence_model' = Rat(1, 2)
    /\ pc' = "normalize"
    /\ UNCHANGED <<argv, core, high, normed, mood, output, call>>

\* the first of the values that is an exception, or "none"
FirstRaise(vs) ==
    IF \E i \in 1..Len(vs) : Raises(vs[i])
    THEN vs[CHOOSE i \in 1..Len(vs) :
                Raises(vs[i]) /\ \A j \in 1..(i - 1) : ~Raises(vs[j])].k
    ELSE "none"

\* faulty variant: bpm normalized over 40..200
AnalyzeNormalize_bpm_range ==
    /\ pc = "normalize"
    /\ bpm_n' = normalize(bpm, Int2Num(40), Int2Num(200))
    /\ loud_n' = normalize(loudness, Int2Num(-60), Int2Num(0))
    /\ cent_n' = normalize(spectral_centroid, Int2Num(500), Int2Num(5000))
    /\ flux_n' = normalize(spectral_flux, Int2Num(0), Int2Num(1))
    /\ Goto("arousal")
    /\ UNCHANGED <<argv, core, models, mood, call>>

\* bpm_n = normalize(bpm, 60, 200) ... flux_n = normalize(spectral_flux, 0, 1)
AnalyzeNormalize ==
    /\ pc = "normalize"
    /\ LET b == normalize(bpm, Int2Num(60), Int2Num(200))
           l == normalize(loudness, Int2Num(-60), Int2Num(0))
           c == normalize(spectral_centroid, Int2Num(500), Int2Num(5000))
           f == normalize(spectral_flux, Int2Num(0), Int2Num(1))
           err == FirstRaise(<<b, l, c, f>>)
       IN  IF err # "none"
           THEN Propagate(err) /\ UNCHANGED normed
           ELSE /\ bpm_n' = b /\ loud_n' = l /\ cent_n' = c /\ flux_n' = f
                /\ Goto("arousal")
    /\ UNCHANGED <<argv, core, models, mood, call>>

\* arousal = compute_arousal(bpm_n, loud_n, flux_n, energy_model)
AnalyzeArousal ==
    /\ pc = "arousal"
    /\ arousal' = compute_arousal(bpm_n, loud_n, flux_n, energy_model)
    /\ pc' = "valence"
    /\ UNCHANGED <<argv, core, models, normed, valence, output, call>>

\* valence = compute_valence(scale, cent_n, valence_model, mfcc)
AnalyzeValence ==
    /\ pc = "valence"
    /\ valence' = compute_valence(scale, cent_n, valence_model, mfcc)
    /\ pc' = "return"
    /\ UNCHANGED <<argv, core, models, normed, arousal, output, call>>

\* return {...}: the record, each number rounded
AnalyzeReturn ==
    /\ pc = "return"
    /\ result' = [bpm |-> py_round(bpm, 10),
                  loudness |-> py_round(loudness, 100),
                  spectral_centroid |-> py_round(spectral_centroid, 10),
                  spectral_flux |-> py_round(spectral_flux, 1000),
                  key |-> key,
                  mode |-> scale,
                  valence |-> py_round(valence, 1000),
                  arousal |-> py_round(arousal, 1000)]
    /\ pc' = "print"
    /\ UNCHANGED <<argv, core, models, normed, mood, raised, stdout, stderr, exit_status, call>>

\* print(json.dumps(result)); the interpreter then ends with status 0
MainPrint ==
    /\ pc = "print"
    /\ stdout' = Append(stdout, result)
    /\ exit_status' = 0
    /\ pc' = "exit"
    /\ UNCHANGED <<argv, core, models, normed, mood, result, raised, stderr, call>>

\* faulty variant: the error is printed but the status is not set
MainHandler_no_exit ==
    /\ pc = "handler"
    /\ stderr' = Append(stderr, [error |-> raised])
    /\ exit_status' = 0
    /\ pc' = "exit"
    /\ UNCHANGED <<argv, core, models, normed, mood, result, raised, stdout, call>>

\* except Exception as e: print(json.dumps({"error": str(e)}), file=sys.stderr); sys.exit(1)
MainHandler ==
    /\ pc = "handler"
    /\ stderr' = Append(stderr, [error |-> raised])
    /\ exit_status' = 1
    /\ pc' = "exit"
    /\ UNCHANGED <<argv, core, models, normed, mood, result, raised, stdout, call>>

Next ==
    \/ MainArgs
    \/ LoadAudio
    \/ ExtractRhythm
    \/ ExtractLoudness
    \/ ExtractCentroid
    \/ ExtractFlux
    \/ ExtractMfcc
    \/ ExtractKey
    \/ HLConstruct
    \/ HLRun
    \/ HLReadEnergy
    \/ HLReadValence
    \/ HLExcept
    \/ AnalyzeNormalize
    \/ AnalyzeArousal
    \/ AnalyzeValence
    \/ AnalyzeReturn
    \/ MainPrint
    \/ MainHandler

Spec == Init /\ [][Next]_vars

ScorerInit ==
    /\ Init
    /\ argv = <<"analyze.py">>

ScorerNext ==
    \/ CallNormalize
    \/ CallClamp
    \/ CallComputeValence
    \/ CallComputeArousal
    \/ CallReturn

ScorerSpec == ScorerInit /\ [][ScorerNext]_vars

---------------------------------------------------------------------------
(* Properties of the scorer, checked under ScorerSpec *)

Zero == Int2Num(0)

One == Int2Num(1)

InUnit(x) == Le(Zero, x) /\ Le(x, One)

IsValenceCall == call.fn = "compute_valence"

\* C1: whatever the mode string, the magnitude of the normalized descriptors and
\* model values, and the timbre coefficients, compute_valence and compute_arousal
\* return a value in the closed interval [0,1].
C1_MoodInUnitInterval ==
    call.fn \in {"compute_valence", "compute_arousal"} =>
        call.raised = "none" /\ InUnit(call.ret)

\* C1 witness: an arousal call whose normalized bpm lies far above 1 and whose
\* weighted sum exceeds 1 returned exactly 1.
C1_Witness ==
    /\ call.fn = "compute_arousal"
    /\ Lt(Int2Num(2), call.args.bpm)
    /\ Lt(One, arousal_raw(call.args.bpm, call.args.loudness,
                           call.args.spectral_flux, call.args.energy_model))
    /\ Eq(call.ret, One)

\* C3 (as claimed): with fewer than 5 timbre coefficients the valence scorer
\* reports InsufficientFeatures and returns no value.
C3_InsufficientFeaturesReported ==
    (IsValenceCall /\ Len(call.args.mfccs) < 5) =>
        call.raised = "InsufficientFeatures" /\ call.ret = Unbound

\* C4 (as claimed): with a mode that is neither "major" nor "minor" (and enough
\* coefficients) the valence scorer fails with InvalidMode and does not return
\* the score of the same input in minor.
C4_InvalidModeReported ==
    (IsValenceCall /\ call.args.mode \notin {"major", "minor"}
                   /\ Len(call.args.mfccs) >= 5) =>
        /\ call.raised = "InvalidMode"
        /\ call.ret # compute_valence("minor", call.args.spectral_centroid,
                                      call.args.valence_model, call.args.mfccs)

\* the valence the specification prescribes, written out from its formula:
\* brightness is the mean of exactly the first five coefficients
SpecValence(mode, centroid, vmodel, m) ==
    LET flag == IF mode = "major" THEN One ELSE Zero
        brightness == Div(Add(m[1], Add(m[2], Add(m[3], Add(m[4], m[5])))), Int2Num(5))
        raw == Add(Mul(Rat(35, 100), flag),
                   Add(Mul(Rat(25, 100), centroid),
                       Add(Mul(Rat(20, 100), vmodel), Mul(Rat(20, 100), brightness))))
    IN  IF Lt(raw, Zero) THEN Zero ELSE IF Lt(One, raw) THEN One ELSE raw

\* C5: for mode major or minor and at least 5 coefficients compute_valence
\* returns clamp(0.35*modeFlag + 0.25*centroid + 0.20*valenceModel +
\* 0.20*brightness, 0, 1), brightness being the mean of the first 5
\* coefficients only; scenario 1 yields 0.100 and scenario 2 yields 1.000.
C5_ValenceFormula ==
    (IsValenceCall /\ call.args.mode \in {"major", "minor"}
                   /\ Len(call.args.mfccs) >= 5) =>
        LET a == call.args
            zeros == \A i \in 1..5 : a.mfccs[i] = Zero
            ones == \A i \in 1..5 : a.mfccs[i] = One
        IN  /\ call.raised = "none"
            /\ Eq(call.ret, SpecValence(a.mode, a.spectral_centroid,
                                        a.valence_model, a.mfccs))
            /\ (a.mode = "minor" /\ a.spectral_centroid = Zero
                    /\ a.valence_model = Rat(1, 2) /\ zeros)
                => call.ret = Rat(100, 1000)
            /\ (a.mode = "major" /\ a.spectral_centroid = One
                    /\ a.valence_model = One /\ ones)
                => call.ret = Rat(1000, 1000)

\* C5 witness: a call with more than 5 coefficients whose sixth differs from the
\* mean of the first five and whose result is not saturated.
C5_Witness ==
    /\ IsValenceCall
    /\ call.args.mode = "major"
    /\ Len(call.args.mfccs) > 5
    /\ call.args.mfccs[6] = Int2Num(3)
    /\ ~Eq(mfcc_brightness(call.args.mfccs), Int2Num(3))
    /\ Lt(Zero, call.ret) /\ Lt(call.ret, One)

\* C7: with centroid, valence model and coefficients fixed, the value passed
\* to clamp for major exceeds the one for minor by exactly 0.35 (when it is a
\* number, i.e. at least one coefficient is given), and the returned valence
\* for major is never lower than the one for minor.
C7_ModeSensitivity ==
    (IsValenceCall /\ call.args.mode = "major") =>
        LET a == call.args
            major == valence_raw("major", a.spectral_centroid, a.valence_model, a.mfccs)
            minor == valence_raw("minor", a.spectral_centroid, a.valence_model, a.mfccs)
        IN  /\ Len(a.mfccs) >= 1 => Eq(Sub(major, minor), Rat(35, 100))
            /\ Le(compute_valence("minor", a.spectral_centroid, a.valence_model, a.mfccs),
                  call.ret)

\* C7 witness: a major call that saturates at 1 while the same input in minor
\* stays below 1.
C7_Witness ==
    /\ IsValenceCall
    /\ call.args.mode = "major"
    /\ Eq(call.ret, One)
    /\ Lt(compute_valence("minor", call.args.spectral_centroid,
                          call.args.valence_model, call.args.mfccs), One)

IsNormalizeCall == call.fn = "normalize"

\* x lies outside the closed interval [lo, hi]
Outside(x, lo, hi) == Lt(x, lo) \/ Lt(hi, x)

\* C8, first part: with min_val = max_val normalize raises nothing and returns
\* the finite value (x - min_val) / 1e-9 (ret * 1e-9 = x - min_val), which is 0
\* when x = min_val.
DegenerateRange ==
    (IsNormalizeCall /\ Eq(call.args.min_val, call.args.max_val)) =>
        /\ call.raised = "none"
        /\ Eq(Mul(call.ret, Eps), Sub(call.args.x, call.args.min_val))
        /\ Eq(call.args.x, call.args.min_val) => Eq(call.ret, Zero)

\* C8 (as claimed): ... and, no clamping being applied, every x outside
\* [min_val, max_val] gives a value outside [0,1].
C8_OutsideGivesOutside ==
    /\ DegenerateRange
    /\ (IsNormalizeCall /\ Le(call.args.min_val, call.args.max_val)
            /\ Outside(call.args.x, call.args.min_val, call.args.max_val))
        => (call.raised = "none" /\ ~InUnit(call.ret))

\* C8 (amended): with min_val = max_val normalize raises nothing and returns
\* (x - min_val) / 1e-9; for min_val <= max_val it clamps nothing: x < min_val
\* gives a value below 0 and x > max_val + 1e-9 a value above 1, while
\* max_val < x <= max_val + 1e-9 still gives a value in (0,1].
C8_NormalizeUnclamped ==
    /\ DegenerateRange
    /\ (IsNormalizeCall /\ Le(call.args.min_val, call.args.max_val)) =>
        LET x == call.args.x
            lo == call.args.min_val
            hi == call.args.max_val
        IN  /\ call.raised = "none"
            /\ Lt(x, lo) => Lt(call.ret, Zero)
            /\ Lt(Add(hi, Eps), x) => Lt(One, call.ret)
            /\ (Lt(hi, x) /\ Le(x, Add(hi, Eps))) => (Lt(Zero, call.ret) /\ Le(call.ret, One))

\* C8 witness: min_val = max_val and x half of 1e-9 above them; the value is 1/2.
C8_Witness ==
    /\ IsNormalizeCall
    /\ call.args.min_val = call.args.max_val
    /\ Eq(call.args.x, Add(call.args.max_val, Mul(Rat(1, 2), Eps)))
    /\ Eq(call.ret, Rat(1, 2))

---------------------------------------------------------------------------
(* Properties of the command, checked under Spec *)

\* the high-level stage failed: an exception was caught by the except clause
FellBack == high.error # "none"

Returned == pc \in {"print", "exit"} /\ raised = "none" /\ Len(argv) >= 2

\* the record analyze returns for the extracted descriptors when the two model
\* values are given
RecordWith(emodel, vmodel) ==
    [bpm |-> py_round(bpm, 10),
     loudness |-> py_round(loudness, 100),
     spectral_centroid |-> py_round(spectral_centroid, 10),
     spectral_flux |-> py_round(spectral_flux, 1000),
     key |-> key,
     mode |-> scale,
     valence |-> py_round(compute_valence(scale,
                     normalize(spectral_centroid, Int2Num(500), Int2Num(5000)),
                     vmodel, mfcc), 1000),
     arousal |-> py_round(compute_arousal(
                     normalize(bpm, Int2Num(60), Int2Num(200)),
                     normalize(loudness, Int2Num(-60), Int2Num(0)),
                     normalize(spectral_flux, Int2Num(0), Int2Num(1)),
                     emodel), 1000)]

\* the stage succeeded and produced 0.5 for both values
ExplicitHalf == ~FellBack /\ high.energy = Rat(1, 2) /\ high.valence = Rat(1, 2)

\* C2: once the high-level stage has failed (construction, run, or either read)
\* no exception leaves analyze, control stays on the path from the except
\* clause to the return (each step of which is always able to run), and the
\* record returned is the one the same descriptors give with energy and
\* valence model both 0.5, which is also the record of a run whose stage
\* produced 0.5 for both.
C2_FallbackEquivalence ==
    /\ FellBack =>
        /\ raised = "none"
        /\ pc \in {"hl_except", "normalize", "arousal", "valence", "return", "print", "exit"}
        /\ pc \in {"print", "exit"} => result = RecordWith(Rat(1, 2), Rat(1, 2))
        /\ pc = "exit" => (stdout = <<result>> /\ exit_status = 0)
    /\ (ExplicitHalf /\ Returned) => result = RecordWith(Rat(1, 2), Rat(1, 2))

\* C2 witness: the energy read gave 1, the valence read failed, and analyze has
\* returned a record.
C2_Witness ==
    /\ pc = "print"
    /\ high.error = "KeyError"
    /\ high.energy = One
    /\ result # NoResult

\* C6: the arousal analyze computes is clamp(0.4*normalize(bpm,60,200) +
\* 0.3*normalize(loudness,-60,0) + 0.2*normalize(spectral_flux,0,1) +
\* 0.1*energy_model, 0, 1); the record reports it to 3 decimals: 0.050 in
\* scenario 1 and 1.000 in scenario 2.
C6_ArousalFormula ==
    arousal # Unbound =>
        LET Norm(x, lo, hi) == Div(Sub(x, Int2Num(lo)), Add(Int2Num(hi - lo), Eps))
            raw == Add(Mul(Rat(4, 10), Norm(bpm, 60, 200)),
                       Add(Mul(Rat(3, 10), Norm(loudness, -60, 0)),
                           Add(Mul(Rat(2, 10), Norm(spectral_flux, 0, 1)),
                               Mul(Rat(1, 10), energy_model))))
            expected == IF Lt(raw, Zero) THEN Zero ELSE IF Lt(One, raw) THEN One ELSE raw
        IN  /\ Eq(arousal, expected)
            /\ (Returned /\ bpm = Int2Num(60) /\ loudness = Int2Num(-60)
                    /\ spectral_flux = Zero /\ energy_model = Rat(1, 2))
                => result.arousal = Rat(50, 1000)
            /\ (Returned /\ bpm = Int2Num(200) /\ loudness = Zero
                    /\ spectral_flux = One /\ energy_model = One)
                => result.arousal = Rat(1000, 1000)

\* C6 witness: scenario 2 has been analyzed; the arousal computed is just below
\* 1 and the record reports 1.000.
C6_Witness ==
    /\ Returned
    /\ bpm = Int2Num(200) /\ loudness = Zero /\ spectral_flux = One
    /\ energy_model = One
    /\ Lt(arousal, One)
    /\ result.arousal = One

\* the run ended with the record on stdout and status 0
Succeeded ==
    /\ raised = "none"
    /\ result # NoResult
    /\ stdout = <<result>>
    /\ stderr = <<>>
    /\ exit_status = 0

\* the run ended with no record, an error record or the usage text on stderr,
\* and a non-zero status
Failed ==
    /\ result = NoResult
    /\ stdout = <<>>
    /\ exit_status # 0
    /\ IF Len(argv) < 2 THEN stderr = <<Usage>> /\ raised = "none"
       ELSE stderr = <<[error |-> raised]>> /\ raised # "none"

\* C9: a run ends in exactly one of two outcomes: analyze returned, the record
\* is emitted and the status is 0; or analyze raised (or no file argument was
\* given), no record is emitted, an error record (or the usage text) is, and
\* the status is non-zero.  Nothing is emitted before the end.
C9_ExactlyOneOutcome ==
    /\ pc = "exit" => (Succeeded \/ Failed) /\ ~(Succeeded /\ Failed)
    /\ pc = "exit" => (Succeeded <=> (Len(argv) >= 2 /\ raised = "none"))
    /\ pc # "exit" => (stdout = <<>> /\ stderr = <<>> /\ exit_status = -1)

\* C9 witness: the key extractor raised and the run ended with the error record.
C9_Witness ==
    /\ pc = "exit"
    /\ raised = "KeyExtractor"
    /\ stderr = <<[error |-> "KeyExtractor"]>>
    /\ exit_status = 1

\* C10: where the scorers are called, either both energy_model and
\* valence_model hold the values read from the high-level stage or both are
\* 0.5; never one read value beside one default.
C10_AllOrNothing ==
    pc \in {"normalize", "arousal", "valence"} =>
        \/ /\ ~FellBack
           /\ IsNum(high.energy) /\ energy_model = high.energy
           /\ IsNum(high.valence) /\ valence_model = high.valence
        \/ /\ FellBack
           /\ energy_model = Rat(1, 2)
           /\ valence_model = Rat(1, 2)

\* C10 witness: the stage produced energy 1 and no valence (so the energy read
\* succeeded and the valence read failed), and the arousal scorer is about to
\* be called with both values 0.5.
C10_Witness ==
    /\ pc = "arousal"
    /\ high.energy = One
    /\ Raises(high.valence)
    /\ energy_model = Rat(1, 2)
    /\ valence_model = Rat(1, 2)

===========================================================================
